---- MODULE Spec2Model ----
(***************************************************************************)
(* testing_tensorflow_linear_regression.py as a state machine.             *)
(*                                                                         *)
(* DataSpec  lines 11-47 and 130, 140 on small datasets and on one of the    *)
(*           script's size: scaling, the split, the Data containers and    *)
(*           what they hand out, with the numbers kept as exact rationals  *)
(*           and the float32 conversion of Data as IEEE rounding.          *)
(* Spec      the script from line 47 on (containers, training loop,        *)
(*           evaluation loop) with the sizes the script really has:        *)
(*           1000 samples, test_size 0.33, batch_size 64, 1000 epochs.     *)
(*           Samples are row indices; tensors whose numbers do not decide  *)
(*           control flow (outputs, loss, gradients, parameters) are kept  *)
(*           as their provenance: which parameter version and which        *)
(*           mini-batch they were computed from.                           *)
(***************************************************************************)
EXTENDS Integers, Sequences, FiniteSets

\* --------------------------------------------------------------- constants
n_samples == 1000
\* random_state of make_regression and of train_test_split
data_seed == 4
random_state == 42
\* significand width of np.float32
MantissaBits == 24
batch_size == 64
epochs == 1000
\* test_size = 0.33 as the fraction TestNum / TestDen
TestNum == 33
TestDen == 100
\* MinMaxScaler() default feature_range = (0, 1)
RangeLo == 0
RangeHi == 1

\* ------------------------------------------------------------------ bounds
\* shuffles drawn by a sampler: k |-> (a*k + b) mod n, a <= MaxMult, b <= MaxShift
MaxMult == 3
MaxShift == 1
\* evaluation data: scaled labels and predictions are multiples of 1/2 taken
\* from one of MaxPattern+1 patterns over the test rows
MaxPattern == 2
\* DataSpec: datasets of 2..MaxN rows (and of n_samples rows) and MaxFeatures
\* feature columns, raw values in -MaxVal..MaxVal, seeds up to MaxSeedSpread
\* above the script's, rows 0..MaxIndex fetched from a container
MaxN == 5
MaxFeatures == 2
MaxVal == 2
MaxSeedSpread == 1
MaxIndex == 3

Null == "None"
NoItem == [ of |-> "none" ]

\* ---------------------------------------------------------------- rationals
\* A number is <<numerator, denominator>> in lowest terms, denominator > 0.
Abs(x) == IF x < 0 THEN -x ELSE x

RECURSIVE GCD(_, _)
GCD(a, b) == IF b = 0 THEN a ELSE GCD(b, a % b)

Q(n, d) ==
  LET s == IF d < 0 THEN -1 ELSE 1
      g == GCD(Abs(n), Abs(d))
  IN  <<(s * n) \div g, (s * d) \div g>>

QInt(n) == <<n, 1>>
QAdd(x, y) == Q(x[1] * y[2] + y[1] * x[2], x[2] * y[2])
QSub(x, y) == Q(x[1] * y[2] - y[1] * x[2], x[2] * y[2])
QMul(x, y) == Q(x[1] * y[1], x[2] * y[2])
QDiv(x, y) == Q(x[1] * y[2], x[2] * y[1])
QLe(x, y) == x[1] * y[2] <= y[1] * x[2]
QAbs(x) == <<Abs(x[1]), x[2]>>

Min(a, b) == IF a < b THEN a ELSE b

\* ceil(p / q) for p >= 0, q > 0
CeilDiv(p, q) == (p + q - 1) \div q

\* ------------------------------------------------------- train_test_split
\* sklearn _validate_shuffle_split with a float test_size and train_size=None:
\* n_test = ceil(test_size * n), n_train = n - n_test.
NTest(n) == CeilDiv(TestNum * n, TestDen)
\* mutant: the train size rounded on its own from 1 - test_size
NTrain_Rounded(n) == ((TestDen - TestNum) * n + TestDen \div 2) \div TestDen
NTrain(n) == n - NTest(n)

\* The index order ShuffleSplit draws from RandomState(seed): a permutation
\* of 0..n-1 that the seed alone decides, in the form [a, b, n] read by RowAt.
RECURSIVE FirstCoprime(_, _)
FirstCoprime(m, n) == IF GCD(m, n) = 1 THEN m ELSE FirstCoprime(m + 1, n)

Permutation(seed, n) ==
  [ a |-> FirstCoprime(1 + (seed % n), n), b |-> (7 * seed + 3) % n, n |-> n ]

\* --------------------------------------------------------------- DataLoader
\* The index orders a shuffling sampler may draw for a dataset of n rows
\* (row indices 0..n-1, as Data.__getitem__ takes them): position k of the
\* order [a, b, n] holds row (a * (k - 1) + b) mod n.
Orders(n) ==
  { [ a |-> a, b |-> b, n |-> n ] :
      a \in { m \in 1..MaxMult : GCD(m, n) = 1 }, b \in 0..MaxShift }

RowAt(order, k) == (order.a * (k - 1) + order.b) % order.n

\* mutant: drop_last = True
NumBatches_DropLast(n) == n \div batch_size

\* number of mini-batches of a loader over n rows (drop_last = False)
NumBatches(n) == CeilDiv(n, batch_size)

\* the k-th mini-batch (k = 0, 1, ...): a slice of positions of the order
BatchOf(n, k) ==
  [ first |-> k * batch_size + 1, last |-> Min((k + 1) * batch_size, n) ]

Size(b) == b.last - b.first + 1

\* the rows of a slice, as a sequence and as a set
Rows(order, b) == [ k \in 1..Size(b) |-> RowAt(order, b.first + k - 1) ]
RowSet(order, b) == { RowAt(order, k) : k \in b.first..b.last }

\* ------------------------------------------------------------ MinMaxScaler
\* fit: data_min_, data_range_ = max - min, scale_ = (hi - lo) / range with a
\* zero range replaced by 1 (_handle_zeros_in_scale), min_ = lo - data_min * scale_
Values(col) == { col[k] : k \in 1..Len(col) }
ColMin(col) == CHOOSE x \in Values(col) : \A z \in Values(col) : QLe(x, z)
ColMax(col) == CHOOSE x \in Values(col) : \A z \in Values(col) : QLe(z, x)

HandleZeros(r) == IF r = QInt(0) THEN QInt(1) ELSE r

Fit(col) ==
  LET lo == ColMin(col)
      rng == QSub(ColMax(col), lo)
      sc == QDiv(QInt(RangeHi - RangeLo), HandleZeros(rng))
  IN  [ data_min |-> lo, data_range |-> rng, scale |-> sc,
        min |-> QSub(QInt(RangeLo), QMul(lo, sc)) ]

\* mutant: the shift by min_ is left out
Transform_NoShift(sc, x) == QMul(x, sc.scale)

\* transform: X * scale_ + min_
Transform(sc, x) == QAdd(QMul(x, sc.scale), sc.min)

\* inverse_transform: (X - min_) / scale_
InverseTransform(sc, x) == QDiv(QSub(x, sc.min), sc.scale)

\* A matrix is a sequence of rows, a row a tuple of numbers; the scaler works
\* column by column.
Col(A, f) == [ j \in 1..Len(A) |-> A[j][f] ]
FitMatrix(A) == [ f \in 1..Len(A[1]) |-> Fit(Col(A, f)) ]
TransformMatrix(scs, A) ==
  [ j \in 1..Len(A) |-> [ f \in 1..Len(A[j]) |-> Transform(scs[f], A[j][f]) ] ]
InverseTransformMatrix(scs, A) ==
  [ j \in 1..Len(A) |->
      [ f \in 1..Len(A[j]) |-> InverseTransform(scs[f], A[j][f]) ] ]

\* ----------------------------------------------------------------- float32
RECURSIVE Pow2(_)
Pow2(k) == IF k = 0 THEN 1 ELSE 2 * Pow2(k - 1)

\* the least k >= 0 with p * 2^k >= q * 2^(MantissaBits - 1), for p, q > 0
RECURSIVE Shift(_, _, _)
Shift(p, q, k) ==
  IF p * Pow2(k) >= q * Pow2(MantissaBits - 1) THEN k ELSE Shift(p, q, k + 1)

\* a / b rounded to the nearest integer, ties to even (a >= 0, b > 0)
RoundHalfEven(a, b) ==
  LET fl == a \div b
      r == a % b
  IN  IF 2 * r < b THEN fl
      ELSE IF 2 * r > b THEN fl + 1
      ELSE IF fl % 2 = 0 THEN fl ELSE fl + 1

\* astype(np.float32): the nearest number with a MantissaBits-bit significand
\* (for magnitudes below 2^MantissaBits and above the subnormal range)
F32(x) ==
  IF x[1] = 0 THEN x
  ELSE LET p == Abs(x[1])
           k == Shift(p, x[2], 0)
           m == RoundHalfEven(p * Pow2(k), x[2])
       IN  Q((IF x[1] < 0 THEN -m ELSE m), Pow2(k))

F32Matrix(A) == [ j \in 1..Len(A) |-> [ f \in 1..Len(A[j]) |-> F32(A[j][f]) ] ]

\* ---------------------------------------------------------------- class Data
\* __init__: X and y as float32 tensors, len = X.shape[0]
Data(Xa, ya) == [ X |-> F32Matrix(Xa), y |-> F32Matrix(ya), len |-> Len(Xa) ]

\* mutant: the target is always taken from the first row
GetItem_FirstTarget(d, index) == << d.X[index + 1], d.y[1] >>

\* __getitem__(index)
GetItem(d, index) == << d.X[index + 1], d.y[index + 1] >>

\* __len__()
DataLen(d) == d.len

\* ------------------------------------------------------- train_test_split
\* ShuffleSplit: the first n_test entries of the permutation are the test
\* rows, the next n_train the train rows
TestIndices(seed, n) ==
  [ k \in 1..NTest(n) |-> RowAt(Permutation(seed, n), k) ]
\* mutant: the train slice starts one entry early
TrainIndices_Overlap(seed, n) ==
  [ k \in 1..NTrain(n) |-> RowAt(Permutation(seed, n), NTest(n) + k - 1) ]
TrainIndices(seed, n) ==
  [ k \in 1..NTrain(n) |-> RowAt(Permutation(seed, n), NTest(n) + k) ]

\* _safe_indexing(a, indices)
Take(A, idx) == [ k \in 1..Len(idx) |-> A[idx[k] + 1] ]

\* train_test_split(Xa, ya): every array is indexed by train, then by test:
\* << X_train, X_test, y_train, y_test >>
TrainTestSplit(Xa, ya, tr, te) ==
  << Take(Xa, tr), Take(Xa, te), Take(ya, tr), Take(ya, te) >>

\* ------------------------------------------------------------ make_regression
\* the k-th raw value of the dataset of seed s
Raw(s, k) == ((k * k * (s + 1) + k * (s + 3) + s) % (2 * MaxVal + 1)) - MaxVal

\* X: rows x features; y: rows x 1 (line 13, reshape(-1, 1))
MakeX(s, rows, feats) ==
  [ j \in 1..rows |-> [ f \in 1..feats |-> QInt(Raw(s, (j - 1) * feats + f)) ] ]
MakeY(s, rows, feats) ==
  [ j \in 1..rows |-> << QInt(Raw(s + 1, rows * feats + j)) >> ]

\* ------------------------------------------------------------------- state
VARIABLES
  pc,            \* position of the single thread of control
  X, y,          \* the dataset (line 11-13)
  X_scaler,      \* the fitted feature scaler (line 16-17)
  y_scaler,      \* the fitted target scaler (line 18-19)
  X_scaled, y_scaled,
  seed,          \* random_state of train_test_split
  ind_train, ind_test,   \* the row indices the split drew
  X_train, X_test, y_train, y_test,
  runs,          \* how often the split has run
  previous,      \* what the split returned the time before
  item,          \* what a container last handed out
  restored,      \* inverse_transform of the test targets
  traindata,     \* Data(X_train, y_train)
  testdata,      \* Data(X_test, y_test)
  epochIt,       \* range(epochs): the next value it yields
  epoch,         \* loop variable of line 104
  loader,        \* the running DataLoader iterator: [order, next]
  i,             \* loop variable of enumerate (lines 106, 137)
  inputs,        \* features of the current mini-batch: a slice of the order
  labels,        \* targets of the current mini-batch: the same slice, and
                 \* in evaluation their values
  outputs,       \* result of the forward pass: << epoch, batch, version >>
  loss,          \* training: << epoch, batch, version >>; evaluation: a number
  grad,          \* the mini-batches whose gradients are summed in .grad
  params,        \* model parameters, as the number of updates applied
  stepGrad,      \* the gradients the last optimizer.step() read
  running_loss,  \* the loss values added since line 105
  seenN,         \* how many rows were handed out in this pass
  predictions,   \* evaluation: model outputs, then their inverse transform
  response,      \* the trained model's output on every test row
  out            \* the lines printed so far

prepVars == << X, y, X_scaler, X_scaled, y_scaled, seed, ind_train, ind_test,
              X_train, X_test, y_train, y_test, runs, previous, item, restored >>

vars == << pc, prepVars, y_scaler, traindata, testdata, epochIt, epoch, loader, i, inputs,
           labels, outputs, loss, grad, params, stepGrad, running_loss, seenN,
           predictions, response, out >>

loopVars == << epochIt, epoch >>
modelVars == << grad, params, stepGrad >>
dataVars == << prepVars, y_scaler, traindata, testdata, response >>
trainVars == << epochIt, epoch, loader, i, inputs, labels, outputs, loss, grad,
               params, stepGrad, running_loss, seenN, predictions, response, out >>
batchVars == << loader, i, inputs, labels, seenN >>

\* ------------------------------------------------------------ evaluation data
Half(k) == Q(k, 2)

\* scaled float32 targets of the test rows: values in [0, 1]
LabelPattern(p, n) == [ j \in 1..n |-> << Half(((j - 1) * (p + 1)) % 3) >> ]

\* outputs of the trained network on the test rows (no activation: unbounded)
ResponsePattern(q, n) ==
  [ j \in 1..n |-> << Half(((j - 1) \div (q + 1)) % 4) >> ]

\* target columns the scaler may have been fitted on (their extremes)
TargetColumns == { << << QInt(-2) >>, << QInt(2) >> >> }

\* ----------------------------------------------------------------- actions
Init ==
  /\ pc = "traindata"
  /\ y_scaler \in { FitMatrix(c) : c \in TargetColumns }
  /\ X = Null /\ y = Null /\ X_scaler = Null /\ X_scaled = Null
  /\ y_scaled = Null /\ seed = random_state
  /\ ind_train = Null /\ ind_test = Null
  /\ X_train = Null /\ X_test = Null /\ y_train = Null /\ y_test = Null
  /\ runs = 1 /\ previous = << >> /\ item = NoItem /\ restored = << >>
  /\ traindata = Null /\ testdata = Null
  /\ epochIt = 0 /\ epoch = Null
  /\ loader = Null /\ i = Null /\ inputs = Null /\ labels = Null
  /\ outputs = Null /\ loss = Null
  /\ grad = {} /\ params = 0 /\ stepGrad = {}
  /\ running_loss = Null
  /\ seenN = 0
  /\ predictions = Null /\ response = Null
  /\ out = << >>

\* line 47: traindata = Data(X_train, y_train); self.len = self.X.shape[0]
MakeTrainData ==
  /\ pc = "traindata"
  /\ traindata' = [ len |-> NTrain(n_samples) ]
  /\ pc' = "epoch"
  /\ UNCHANGED << prepVars, y_scaler, testdata, response, loopVars, batchVars,
                  outputs, loss, modelVars, running_loss, predictions, out >>

\* mutant: running_loss is set to zero once, before the loop
NextEpoch_NoReset ==
  /\ pc = "epoch"
  /\ IF epochIt < epochs
       THEN /\ epoch' = epochIt
            /\ epochIt' = epochIt + 1
            /\ running_loss' = IF epochIt = 0 THEN << >> ELSE running_loss
            /\ pc' = "trainiter"
       ELSE /\ pc' = "testdata"
            /\ UNCHANGED << epoch, epochIt, running_loss >>
  /\ UNCHANGED << dataVars, batchVars, outputs, loss, modelVars, predictions, out >>

\* line 104-105: for epoch in range(epochs): running_loss = 0.0
NextEpoch ==
  /\ pc = "epoch"
  /\ IF epochIt < epochs
       THEN /\ epoch' = epochIt
            /\ epochIt' = epochIt + 1
            /\ running_loss' = << >>
            /\ pc' = "trainiter"
       ELSE /\ pc' = "testdata"
            /\ UNCHANGED << epoch, epochIt, running_loss >>
  /\ UNCHANGED << dataVars, batchVars, outputs, loss, modelVars, predictions, out >>

\* line 106: enumerate(trainloader) creates the iterator; shuffle=True draws
\* a fresh order of the rows
TrainIter ==
  /\ pc = "trainiter"
  /\ \E o \in Orders(traindata.len) : loader' = [ order |-> o, next |-> 0 ]
  /\ seenN' = 0
  /\ pc' = "trainnext"
  /\ UNCHANGED << dataVars, loopVars, i, inputs, labels, outputs, loss,
                  modelVars, running_loss, predictions, out >>

\* line 106: the next (i, (inputs, labels)), or the end of the pass
TrainNext ==
  /\ pc = "trainnext"
  /\ IF loader.next < NumBatches(traindata.len)
       THEN LET b == BatchOf(traindata.len, loader.next) IN
            /\ i' = loader.next
            /\ inputs' = b
            /\ labels' = b
            /\ seenN' = seenN + Size(b)
            /\ loader' = [ loader EXCEPT !.next = @ + 1 ]
            /\ pc' = "forward"
       ELSE /\ pc' = "report"
            /\ UNCHANGED << loader, i, inputs, labels, seenN >>
  /\ UNCHANGED << dataVars, loopVars, outputs, loss, modelVars, running_loss,
                  predictions, out >>

\* a training loss value, by where it comes from: the epoch and mini-batch it
\* was computed on and the parameter version it was computed with
LossEpoch(t) == t[1]
LossBatch(t) == t[2]
LossVer(t) == t[3]

\* line 110: outputs = model(inputs)
Forward ==
  /\ pc = "forward"
  /\ outputs' = << epoch, i, params >>
  /\ pc' = "criterion"
  /\ UNCHANGED << dataVars, loopVars, batchVars, loss, modelVars, running_loss,
                  predictions, out >>

\* line 111: loss = criterion(outputs, labels)
Criterion ==
  /\ pc = "criterion"
  /\ loss' = outputs
  /\ pc' = "zero_grad"
  /\ UNCHANGED << dataVars, loopVars, batchVars, outputs, modelVars,
                  running_loss, predictions, out >>

\* mutant: the gradients are not reset
ZeroGrad_Missing ==
  /\ pc = "zero_grad"
  /\ pc' = "backward"
  /\ UNCHANGED << dataVars, loopVars, batchVars, outputs, loss, modelVars,
                  running_loss, predictions, out >>

\* line 115: optimizer.zero_grad()
ZeroGrad ==
  /\ pc = "zero_grad"
  /\ grad' = {}
  /\ pc' = "backward"
  /\ UNCHANGED << dataVars, loopVars, batchVars, outputs, loss, params, stepGrad,
                  running_loss, predictions, out >>

\* line 118: loss.backward() adds the gradient of this loss to .grad
Backward ==
  /\ pc = "backward"
  /\ grad' = grad \cup { << LossEpoch(loss), LossBatch(loss) >> }
  /\ pc' = "step"
  /\ UNCHANGED << dataVars, loopVars, batchVars, outputs, loss, params, stepGrad,
                  running_loss, predictions, out >>

\* line 121: optimizer.step(): p = p - lr * p.grad
Step ==
  /\ pc = "step"
  /\ params' = params + 1
  /\ stepGrad' = grad
  /\ pc' = "accumulate"
  /\ UNCHANGED << dataVars, loopVars, batchVars, outputs, loss, grad,
                  running_loss, predictions, out >>

\* line 122: running_loss += loss.item()
Accumulate ==
  /\ pc = "accumulate"
  /\ running_loss' = Append(running_loss, loss)
  /\ pc' = "trainnext"
  /\ UNCHANGED << dataVars, loopVars, batchVars, outputs, loss, modelVars,
                  predictions, out >>

\* mutant: the 0-based epoch is tested
ReportDue_ZeroBased(e) == e % (epochs \div 10) = 0

\* line 125: not ((epoch + 1) % (epochs // 10))
ReportDue(e) == (e + 1) % (epochs \div 10) = 0

\* line 126-128
ProgressLine(e, k, rl) ==
  [ kind |-> "progress", epochs |-> e + 1, batches |-> k + 1,
    loss |-> [ sum |-> rl, div |-> k + 1 ] ]

\* line 124-128: display statistics
Report ==
  /\ pc = "report"
  /\ out' = IF ReportDue(epoch)
              THEN Append(out, ProgressLine(epoch, i, running_loss))
              ELSE out
  /\ pc' = "epoch"
  /\ UNCHANGED << dataVars, loopVars, batchVars, outputs, loss, modelVars,
                  running_loss, predictions >>


\* line 130-132: testdata = Data(X_test, y_test); the targets are some scaled
\* column, and the trained network answers each test row somehow
MakeTestData ==
  /\ pc = "testdata"
  /\ \E p \in 0..MaxPattern, q \in 0..MaxPattern :
       LET n == NTest(n_samples) IN
       /\ testdata' = [ len |-> n, y |-> LabelPattern(p, n) ]
       /\ response' = ResponsePattern(q, n)
  /\ pc' = "zeroloss"
  /\ UNCHANGED << prepVars, y_scaler, traindata, loopVars, batchVars, outputs,
                  loss, modelVars, running_loss, predictions, out >>

\* line 136: loss = 0
ZeroLoss ==
  /\ pc = "zeroloss"
  /\ loss' = QInt(0)
  /\ pc' = "testiter"
  /\ UNCHANGED << dataVars, loopVars, batchVars, outputs, modelVars,
                  running_loss, predictions, out >>

\* line 137: enumerate(testloader); shuffle=True here too
TestIter ==
  /\ pc = "testiter"
  /\ \E o \in Orders(testdata.len) : loader' = [ order |-> o, next |-> 0 ]
  /\ seenN' = 0
  /\ pc' = "testnext"
  /\ UNCHANGED << dataVars, loopVars, i, inputs, labels, outputs, loss,
                  modelVars, running_loss, predictions, out >>

\* line 137: the next (i, (inputs, labels)), or the end of the pass
TestNext ==
  /\ pc = "testnext"
  /\ IF loader.next < NumBatches(testdata.len)
       THEN LET b == BatchOf(testdata.len, loader.next)
                rows == Rows(loader.order, b)
            IN
            /\ i' = loader.next
            /\ inputs' = b
            /\ labels' = [ k \in 1..Size(b) |-> testdata.y[rows[k] + 1] ]
            /\ seenN' = seenN + Size(b)
            /\ loader' = [ loader EXCEPT !.next = @ + 1 ]
            /\ pc' = "predict"
       ELSE /\ pc' = "print"
            /\ UNCHANGED << loader, i, inputs, labels, seenN >>
  /\ UNCHANGED << dataVars, loopVars, outputs, loss, modelVars, running_loss,
                  predictions, out >>

\* line 139: predictions = model(inputs)
Predict ==
  /\ pc = "predict"
  /\ predictions' =
       LET rows == Rows(loader.order, inputs) IN
       [ k \in 1..Size(inputs) |-> response[rows[k] + 1] ]
  /\ pc' = "invlabels"
  /\ UNCHANGED << dataVars, loopVars, batchVars, outputs, loss, modelVars,
                  running_loss, out >>

\* line 140: labels = y_scaler.inverse_transform(labels)
InverseLabels ==
  /\ pc = "invlabels"
  /\ labels' = InverseTransformMatrix(y_scaler, labels)
  /\ pc' = "invpredictions"
  /\ UNCHANGED << dataVars, loopVars, loader, i, inputs, seenN, outputs,
                  loss, modelVars, running_loss, predictions, out >>

\* line 141: predictions = y_scaler.inverse_transform(predictions)
InversePredictions ==
  /\ pc = "invpredictions"
  /\ predictions' = InverseTransformMatrix(y_scaler, predictions)
  /\ pc' = "mse"
  /\ UNCHANGED << dataVars, loopVars, batchVars, outputs, loss, modelVars,
                  running_loss, out >>

\* sum of (a[k] - b[k])^2 over the rows k in lo..hi of two one-column
\* matrices, halving the range
RECURSIVE SumSq(_, _, _, _)
SumSq(a, b, lo, hi) ==
  IF lo > hi THEN QInt(0)
  ELSE IF lo = hi THEN LET d == QSub(a[lo][1], b[lo][1]) IN QMul(d, d)
  ELSE LET mid == (lo + hi) \div 2
           l == SumSq(a, b, lo, mid)
           r == SumSq(a, b, mid + 1, hi)
       IN  QAdd(l, r)

\* F.mse_loss(input, target), reduction = 'mean'
MSELoss(a, b) == QDiv(SumSq(a, b, 1, Len(a)), QInt(Len(a)))

\* mutant: the evaluation loop also steps the optimizer
AddMSE_WithStep ==
  /\ pc = "mse"
  /\ loss' = QAdd(loss, MSELoss(predictions, labels))
  /\ params' = params + 1
  /\ pc' = "testnext"
  /\ UNCHANGED << dataVars, loopVars, batchVars, outputs, grad, stepGrad,
                  running_loss, predictions, out >>

\* line 142: loss += F.mse_loss(predictions, labels)
AddMSE ==
  /\ pc = "mse"
  /\ loss' = QAdd(loss, MSELoss(predictions, labels))
  /\ pc' = "testnext"
  /\ UNCHANGED << dataVars, loopVars, batchVars, outputs, modelVars,
                  running_loss, predictions, out >>

\* line 143: print(f'MSE Loss: {loss / (i + 1):.5f}')
PrintMSE ==
  /\ pc = "print"
  /\ out' = Append(out, [ kind |-> "mse", value |-> QDiv(loss, QInt(i + 1)) ])
  /\ pc' = "done"
  /\ UNCHANGED << dataVars, loopVars, batchVars, outputs, loss, modelVars,
                  running_loss, predictions >>

Next ==
  \/ MakeTrainData \/ NextEpoch \/ TrainIter \/ TrainNext
  \/ Forward \/ Criterion \/ ZeroGrad \/ Backward \/ Step \/ Accumulate
  \/ Report
  \/ MakeTestData \/ ZeroLoss \/ TestIter \/ TestNext
  \/ Predict \/ InverseLabels \/ InversePredictions \/ AddMSE \/ PrintMSE

Spec == Init /\ [][Next]_vars

\* -------------------------------------------------------- data preparation
Sizes == (2..MaxN) \cup { n_samples }

DataInit ==
  /\ pc = "fit_x"
  /\ \E rows \in Sizes, s \in data_seed..(data_seed + MaxSeedSpread) :
       /\ X = MakeX(s, rows, MaxFeatures)
       /\ y = MakeY(s, rows, MaxFeatures)
  /\ seed \in random_state..(random_state + MaxSeedSpread)
  /\ X_scaler = Null /\ y_scaler = Null /\ X_scaled = Null /\ y_scaled = Null
  /\ ind_train = Null /\ ind_test = Null
  /\ X_train = Null /\ X_test = Null /\ y_train = Null /\ y_test = Null
  /\ runs = 0 /\ previous = << >> /\ item = NoItem /\ restored = << >>
  /\ traindata = Null /\ testdata = Null
  /\ epochIt = 0 /\ epoch = Null
  /\ loader = Null /\ i = Null /\ inputs = Null /\ labels = Null
  /\ outputs = Null /\ loss = Null
  /\ grad = {} /\ params = 0 /\ stepGrad = {}
  /\ running_loss = Null
  /\ seenN = 0
  /\ predictions = Null /\ response = Null
  /\ out = << >>

\* line 16-17: X_scaled = X_scaler.fit_transform(X)
FitX ==
  /\ pc = "fit_x"
  /\ X_scaler' = FitMatrix(X)
  /\ X_scaled' = TransformMatrix(X_scaler', X)
  /\ pc' = "fit_y"
  /\ UNCHANGED << X, y, y_scaler, y_scaled, seed, ind_train, ind_test, X_train,
                  X_test, y_train, y_test, runs, previous, item, restored,
                  traindata, testdata, trainVars >>

\* line 18-19: y_scaled = y_scaler.fit_transform(y)
FitY ==
  /\ pc = "fit_y"
  /\ y_scaler' = FitMatrix(y)
  /\ y_scaled' = TransformMatrix(y_scaler', y)
  /\ pc' = "split"
  /\ UNCHANGED << X, y, X_scaler, X_scaled, seed, ind_train, ind_test, X_train,
                  X_test, y_train, y_test, runs, previous, item, restored,
                  traindata, testdata, trainVars >>

\* line 22-23: train_test_split(X_scaled, y_scaled, test_size=0.33,
\* random_state=seed); run a second time on the same arrays once the script
\* has its containers, to compare the two results
Split ==
  /\ \/ pc = "split" /\ runs = 0
     \/ pc = "ready" /\ runs = 1
  /\ ind_train' = TrainIndices(seed, Len(X_scaled))
  /\ ind_test' = TestIndices(seed, Len(X_scaled))
  /\ LET r == TrainTestSplit(X_scaled, y_scaled, ind_train', ind_test') IN
       /\ X_train' = r[1] /\ X_test' = r[2]
       /\ y_train' = r[3] /\ y_test' = r[4]
  /\ previous' = << X_train, X_test, y_train, y_test >>
  /\ runs' = runs + 1
  /\ pc' = IF runs = 0 THEN "build_train" ELSE "ready"
  /\ UNCHANGED << X, y, X_scaler, y_scaler, X_scaled, y_scaled, seed, item,
                  restored, traindata, testdata, trainVars >>

\* line 47: traindata = Data(X_train, y_train)
BuildTrainData ==
  /\ pc = "build_train"
  /\ traindata' = Data(X_train, y_train)
  /\ pc' = "build_test"
  /\ UNCHANGED << prepVars, y_scaler, testdata, trainVars >>

\* line 130: testdata = Data(X_test, y_test)
BuildTestData ==
  /\ pc = "build_test"
  /\ testdata' = Data(X_test, y_test)
  /\ pc' = "ready"
  /\ UNCHANGED << prepVars, y_scaler, traindata, trainVars >>

\* what a DataLoader does with its dataset: len(dataset), then dataset[k]
\* for an index below it
Fetch ==
  /\ pc = "ready"
  /\ \E which \in { "train", "test" } :
       LET d == IF which = "train" THEN traindata ELSE testdata IN
       \E k \in 0..Min(DataLen(d) - 1, MaxIndex) :
         item' = [ of |-> which, len |-> DataLen(d), index |-> k,
                   value |-> GetItem(d, k) ]
  /\ UNCHANGED << pc, X, y, X_scaler, y_scaler, X_scaled, y_scaled, seed,
                  ind_train, ind_test, X_train, X_test, y_train, y_test, runs,
                  previous, restored, traindata, testdata, trainVars >>

\* line 140, over the whole test set: y_scaler.inverse_transform(labels)
Restore ==
  /\ pc = "ready"
  /\ restored' = InverseTransformMatrix(y_scaler, testdata.y)
  /\ UNCHANGED << pc, X, y, X_scaler, y_scaler, X_scaled, y_scaled, seed,
                  ind_train, ind_test, X_train, X_test, y_train, y_test, runs,
                  previous, item, traindata, testdata, trainVars >>

DataNext ==
  \/ FitX \/ FitY \/ Split \/ BuildTrainData \/ BuildTestData
  \/ Fetch \/ Restore

DataSpec == DataInit /\ [][DataNext]_vars


\* ------------------------------------------------------- positions, counts
BatchPcs == { "forward", "criterion", "zero_grad", "backward", "step", "accumulate" }
EpochPcs == BatchPcs \cup { "trainiter", "trainnext", "report" }
EvalBatchPcs == { "predict", "invlabels", "invpredictions", "mse" }
EvalPcs == EvalBatchPcs \cup { "testdata", "zeroloss", "testiter", "testnext",
                               "print", "done" }

ProgressLines == SelectSeq(out, LAMBDA l : l.kind = "progress")
MSELines == SelectSeq(out, LAMBDA l : l.kind = "mse")

\* epochs whose body, report included, has run to its end
EpochsFinished == IF pc \in EpochPcs THEN epochIt - 1 ELSE epochIt

\* ----------------------------------------------------------------- claims

\* C5: a progress line is printed at the end of an epoch exactly when the
\* 1-based epoch number is a multiple of epochs/10: at any moment the progress
\* lines are those of the multiples of 100 among the finished epochs, in
\* increasing order and nothing else; once training is over there are exactly
\* 10 of them, the last for epoch 1000.
C5_ProgressCadence ==
  LET lines == ProgressLines
      period == epochs \div 10
  IN  /\ Len(lines) = EpochsFinished \div period
      /\ \A k \in 1..Len(lines) : lines[k].epochs = k * period
      /\ pc \in EvalPcs =>
           /\ Len(lines) = 10
           /\ \A k \in 1..10 : lines[k].epochs = 100 * k
           /\ lines[10].epochs = epochs

C5_Witness ==
  /\ pc = "testdata" /\ epochIt = epochs
  /\ Len(out) = 10 /\ out[10].kind = "progress" /\ out[10].epochs = 1000

\* C7: in every mini-batch the steps run forward, loss, gradient reset,
\* backward, update, accumulation; the gradients are empty when backward
\* starts, the update reads the gradients of the current mini-batch only, and
\* the loss added to the running loss was computed from the parameters as they
\* were before this mini-batch's update.
C7_StepOrder ==
  [][ /\ pc = "forward" => pc' = "criterion" /\ LossVer(outputs') = params
      /\ pc = "criterion" => pc' = "zero_grad" /\ LossVer(loss') = params
      /\ pc = "zero_grad" => pc' = "backward" /\ grad' = {} /\ params' = params
      /\ pc = "backward" =>
           pc' = "step" /\ grad = {} /\ grad' = { << epoch, i >> }
      /\ pc = "step" =>
           /\ pc' = "accumulate"
           /\ stepGrad' = { << epoch, i >> }
           /\ params' = params + 1
      /\ pc = "accumulate" =>
           /\ pc' = "trainnext"
           /\ LossVer(loss) = params - 1
           /\ LossEpoch(loss) = epoch /\ LossBatch(loss) = i
           /\ running_loss' = Append(running_loss, loss)
    ]_vars

C7_Witness ==
  /\ pc = "accumulate" /\ epoch = 1 /\ i = 1
  /\ stepGrad = { << 1, 1 >> } /\ LossVer(loss) = params - 1

\* C8: only optimizer.step() changes the model parameters: every other step
\* of training and the whole evaluation leave them as they are, so at the end
\* they are what the last training step made them.
C8_OnlyStepUpdates ==
  [][ /\ params' # params => pc = "step" /\ pc' = "accumulate"
      /\ pc \in EvalPcs => params' = params /\ params = epochs * 11
    ]_vars

C8_Witness == pc = "done" /\ params = 11000 /\ Len(MSELines) = 1

\* C9: every epoch hands out each of the 670 training rows exactly once (the
\* order drawn holds every row once, and the mini-batches are the consecutive
\* slices of it), in 11 mini-batches of 64 rows but for a last one of 30; the
\* running loss starts from zero in each epoch, and the loss of a progress
\* line is the sum of the 11 losses of that epoch over 11.
C9_EpochPass ==
  /\ pc = "trainnext" /\ loader.next = 0 =>
       /\ { RowAt(loader.order, k) : k \in 1..670 } = 0..669
       /\ seenN = 0
  /\ pc \in BatchPcs =>
       /\ Size(inputs) = (IF i < 10 THEN 64 ELSE 30)
       /\ inputs.first = 64 * i + 1
       /\ seenN = 64 * i + Size(inputs)
       /\ Cardinality(RowSet(loader.order, inputs)) = Size(inputs)
       /\ labels = inputs
  /\ pc = "report" =>
       /\ inputs.last = 670 /\ seenN = 670 /\ i + 1 = 11
       /\ Len(running_loss) = 11
  /\ pc = "trainiter" => running_loss = << >>
  /\ pc \in EpochPcs =>
       \A k \in 1..Len(running_loss) :
         /\ LossEpoch(running_loss[k]) = epoch
         /\ LossBatch(running_loss[k]) = k - 1
  /\ \A k \in 1..Len(out) :
       out[k].kind = "progress" =>
         /\ out[k].batches = 11 /\ out[k].loss.div = 11
         /\ Len(out[k].loss.sum) = 11
         /\ \A b \in 1..11 :
              /\ LossEpoch(out[k].loss.sum[b]) = out[k].epochs - 1
              /\ LossBatch(out[k].loss.sum[b]) = b - 1

C9_Witness ==
  /\ pc = "report" /\ epoch = 199 /\ seenN = 670
  /\ Len(out) = 1 /\ out[1].epochs = 100

\* The steps the script still has to take: an epoch is NextEpoch, TrainIter,
\* 11 mini-batches of 7 steps, the closing TrainNext and Report; evaluation is
\* MakeTestData, ZeroLoss, TestIter, 6 mini-batches of 5 steps, the closing
\* TestNext and PrintMSE.
StepsLeft ==
  LET epochAll == 2 + 11 * 7 + 2
      evalAll == 3 + 6 * 5 + 2
      after == (epochs - epochIt) * epochAll + 1 + evalAll
      inBatch == CASE pc = "forward" -> 6 [] pc = "criterion" -> 5
                   [] pc = "zero_grad" -> 4 [] pc = "backward" -> 3
                   [] pc = "step" -> 2 [] pc = "accumulate" -> 1
                   [] pc = "predict" -> 4 [] pc = "invlabels" -> 3
                   [] pc = "invpredictions" -> 2 [] pc = "mse" -> 1
                   [] OTHER -> 0
  IN  CASE pc = "traindata" -> 1 + after
        [] pc = "epoch" -> after
        [] pc = "trainiter" -> after + 11 * 7 + 3
        [] pc = "trainnext" -> after + (11 - loader.next) * 7 + 2
        [] pc \in BatchPcs -> after + inBatch + (11 - loader.next) * 7 + 2
        [] pc = "report" -> after + 1
        [] pc = "testdata" -> evalAll
        [] pc = "zeroloss" -> evalAll - 1
        [] pc = "testiter" -> evalAll - 2
        [] pc = "testnext" -> (6 - loader.next) * 5 + 2
        [] pc \in EvalBatchPcs -> inBatch + (6 - loader.next) * 5 + 2
        [] pc = "print" -> 1
        [] pc = "done" -> 0

C10_Counts ==
  /\ StepsLeft >= 0
  /\ pc \notin { "done", "mse" } => ENABLED Next
  /\ pc \in { "done", "mse" } => loader.next \in 1..6
  /\ pc = "epoch" => params = epochIt * 11
  /\ pc \in EvalPcs =>
       /\ epochIt = epochs /\ epoch = epochs - 1
       /\ params = 1000 * 11 /\ params = 11000
       /\ Len(ProgressLines) = 10
  /\ pc \in EvalBatchPcs =>
       /\ Size(inputs) = (IF i < 5 THEN 64 ELSE 10)
       /\ inputs.first = 64 * i + 1
       /\ Len(labels) = Size(inputs)
  /\ pc \in { "print", "done" } => i + 1 = 6 /\ seenN = 330 /\ inputs.last = 330
  /\ pc # "done" => Len(MSELines) = 0
  /\ pc = "done" =>
       /\ Len(out) = 11 /\ out[11].kind = "mse"
       /\ \A k \in 1..10 : out[k].kind = "progress"

\* C10: the script terminates: every step brings the end one step closer, a
\* step is possible until the end is reached, training makes exactly 1000
\* passes and 11000 updates, evaluation starts after the last epoch and
\* handles 6 test mini-batches (5 of 64 rows, one of 10), and the MSE line is
\* printed once, after all 10 progress lines.
C10_Terminates ==
  /\ [][ StepsLeft' = StepsLeft - 1 ]_vars
  /\ []C10_Counts

C10_Witness ==
  /\ pc = "done" /\ epochIt = 1000 /\ params = 11000
  /\ Len(out) = 11 /\ out[11].kind = "mse"

\* the mean-squared error over the whole test set, on the original scale
TestSetMSE ==
  LET n == testdata.len
      p == InverseTransformMatrix(y_scaler, response)
      l == InverseTransformMatrix(y_scaler, testdata.y)
  IN  QDiv(SumSq(p, l, 1, n), QInt(n))

\* C6: the figure printed at the end is the mean over all test rows of the
\* squared difference between inverse-scaled prediction and inverse-scaled
\* label, however the rows were grouped into mini-batches.
C6_FinalFigureIsTestMSE ==
  pc = "done" => out[Len(out)].value = TestSetMSE


\* ---------------------------------------------------- claims on the data
Elems(s) == { s[k] : k \in 1..Len(s) }

\* C1: after train_test_split with test_size = 0.33 the train and the test
\* rows add up to all rows, features and targets alike, the test rows are the
\* 33% of the rows rounded up, and 1000 rows give 330 test and 670 train rows.
C1_SplitSizes ==
  runs >= 1 =>
    LET rows == Len(X) IN
    /\ Len(y) = rows /\ Len(X_scaled) = rows /\ Len(y_scaled) = rows
    /\ Len(X_train) + Len(X_test) = rows
    /\ Len(y_train) = Len(X_train) /\ Len(y_test) = Len(X_test)
    /\ 100 * Len(X_test) >= 33 * rows /\ 100 * (Len(X_test) - 1) < 33 * rows
    /\ rows = 1000 =>
         /\ Len(X_test) = 330 /\ Len(X_train) = 670
         /\ Len(y_test) = 330 /\ Len(y_train) = 670

C1_Witness ==
  /\ pc = "build_train" /\ runs = 1 /\ Len(X) = 1000
  /\ Len(X_test) = 330 /\ Len(X_train) = 670

ItemX == IF item.of = "train" THEN X_train ELSE X_test
ItemY == IF item.of = "train" THEN y_train ELSE y_test

\* C3 as stated: len() is the number of rows of X and indexing returns the
\* pair (row k of X, row k of y).
C3_ItemIsSourceRow ==
  item.of # "none" =>
    /\ item.len = Len(ItemX)
    /\ item.value = << ItemX[item.index + 1], ItemY[item.index + 1] >>

RECURSIVE IsPow2(_)
IsPow2(d) == d = 1 \/ (d % 2 = 0 /\ IsPow2(d \div 2))

\* a number with a significand of MantissaBits bits: m / 2^k, m < 2^MantissaBits
IsFloat32(v) == IsPow2(v[2]) /\ Abs(v[1]) < Pow2(MantissaBits)

\* every entry of row a is row b's entry rounded to float32: a float32 number,
\* equal to b's entry where that is one, and within 2^-MantissaBits of it,
\* relatively
RoundedRow(a, b) ==
  /\ Len(a) = Len(b)
  /\ \A f \in 1..Len(b) :
       /\ a[f] = F32(b[f])
       /\ IsFloat32(a[f])
       /\ IsFloat32(b[f]) => a[f] = b[f]
       /\ QLe(QMul(QAbs(QSub(a[f], b[f])), QInt(Pow2(MantissaBits))), QAbs(b[f]))

\* C3, amended: len() is the number of rows of X, indexing returns the pair
\* (row k of X, row k of y) converted to float32, and nothing changes a
\* container once it is built.
C3_ItemIsFloat32SourceRow ==
  /\ [](item.of # "none" =>
          /\ item.len = Len(ItemX) /\ item.len = Len(ItemY)
          /\ item.index \in 0..(item.len - 1)
          /\ RoundedRow(item.value[1], ItemX[item.index + 1])
          /\ RoundedRow(item.value[2], ItemY[item.index + 1]))
  /\ [][ /\ pc \in { "build_test", "ready" } => traindata' = traindata
         /\ pc = "ready" => testdata' = testdata ]_vars

C3_Witness ==
  /\ item.of = "train" /\ item.index = 1
  /\ item.value[1] # X_train[2]
  /\ item.value[2] = y_train[2]

InUnit(v) == QLe(QInt(0), v) /\ QLe(v, QInt(1))
AllInUnit(A) == \A j \in 1..Len(A) : \A f \in 1..Len(A[j]) : InUnit(A[j][f])

\* |a - b| <= r * 2^-MantissaBits
Close(a, b, r) ==
  QLe(QMul(QAbs(QSub(a, b)), QInt(Pow2(MantissaBits))), r)

====
